---- MODULE Spec2Model ----
(***************************************************************************)
(* Model of src/app.py, the "Export File to Importable File Converter":    *)
(* the header parser extract_meter_and_reading and one upload run (read,   *)
(* timestamp column, timestamp conversion, column loop, pivot, display,    *)
(* downloads).                                                             *)
(*                                                                         *)
(* Python strings that the code takes apart (column names, meter names,    *)
(* reading types, units) are sequences of one-character strings.  Strings  *)
(* the code only passes around (messages, timestamps) are TLA+ strings.    *)
(***************************************************************************)
EXTENDS Integers, Sequences, FiniteSets, TLC

VARIABLES
    pc,             \* position in the upload run (or in the parser run)
    uploaded_file,  \* the uploaded file: [kind, table]
    df,             \* the DataFrame read from the file (unbound before the read)
    errors,         \* list of error messages
    warnings,       \* list of warning messages
    all_data,       \* list of the non-empty per-column frames (unbound before the loop)
    reading_types,  \* set of reading types (unbound before the loop)
    melted_df,      \* the pivoted output table (unbound before the pivot)
    unit_dict,      \* reading type -> unit (unbound before the pivot)
    column_info,    \* the Column_Info sheet (unbound until it is built)
    shown,          \* what the page presents as the result of the run
    column_name,    \* parser run: the header handed to extract_meter_and_reading
    parsed          \* parser run: the triple it returned (unbound before the call)

vars == <<pc, uploaded_file, df, errors, warnings, all_data, reading_types,
          melted_df, unit_dict, column_info, shown, column_name, parsed>>

\* ------------------------------------------------------------------ bounds

\* Largest uploaded table: data columns, rows, and data cells (columns x rows).
MaxColumns == 3

MaxRows == 2

MaxCells == 4

\* Longest free-form header, and longest text after the separator, handed to
\* the parser in the parser run.
MaxHeaderLen == 3

MaxRemainderLen == 4

\* ------------------------------------------------- Python names and values

\* A Python name is unbound (<<>>) or bound to a value (<<v>>).
Unbound == <<>>

Bind(v) == <<v>>

IsBound(x) == x # Unbound

ValueOf(x) == x[1]

\* A missing reading (NaN): readings themselves are positive numbers.
NaN == 0

\* A missing timestamp (NaN/NaT in the Timestamp column).
NaT == "NaT"

\* ---------------------------------------------------------- Python strings

\* Characters in code point order, for str.lower() and string comparison.
CodePoints ==
    << "\n", " ", "(", ")", "-", ".",
       "A", "B", "C", "D", "E", "F", "G", "H", "I", "J", "K", "L", "M",
       "N", "O", "P", "Q", "R", "S", "T", "U", "V", "W", "X", "Y", "Z",
       "_",
       "a", "b", "c", "d", "e", "f", "g", "h", "i", "j", "k", "l", "m",
       "n", "o", "p", "q", "r", "s", "t", "u", "v", "w", "x", "y", "z" >>

OrdOf ==
    [c \in {CodePoints[i] : i \in 1..Len(CodePoints)} |->
        CHOOSE i \in 1..Len(CodePoints) : CodePoints[i] = c]

\* ord(c), counted from the first character used
Ord(c) == OrdOf[c]

\* What str.strip() removes and what \s matches, among the characters used.
Whitespace == {" ", "\n"}

\* sub occurs in s at position i.
OccursAt(s, sub, i) ==
    /\ i >= 1
    /\ i + Len(sub) - 1 <= Len(s)
    /\ \A k \in 1..Len(sub) : s[i + k - 1] = sub[k]

\* str.find, 1-based: the first position where sub occurs, 0 when it does not.
Find(s, sub) ==
    IF \E i \in 1..Len(s) : OccursAt(s, sub, i)
    THEN CHOOSE i \in 1..Len(s) :
            /\ OccursAt(s, sub, i)
            /\ \A j \in 1..(i - 1) : ~OccursAt(s, sub, j)
    ELSE 0

\* str.rfind, 1-based: the last position where sub occurs, 0 when it does not.
RFind(s, sub) ==
    IF \E i \in 1..Len(s) : OccursAt(s, sub, i)
    THEN CHOOSE i \in 1..Len(s) :
            /\ OccursAt(s, sub, i)
            /\ \A j \in (i + 1)..Len(s) : ~OccursAt(s, sub, j)
    ELSE 0

\* sub in s
Contains(s, sub) == Find(s, sub) # 0

\* s.strip()
Strip(s) ==
    IF \A i \in 1..Len(s) : s[i] \in Whitespace
    THEN <<>>
    ELSE LET first == CHOOSE i \in 1..Len(s) :
                         /\ s[i] \notin Whitespace
                         /\ \A j \in 1..(i - 1) : s[j] \in Whitespace
             last  == CHOOSE i \in 1..Len(s) :
                         /\ s[i] \notin Whitespace
                         /\ \A j \in (i + 1)..Len(s) : s[j] \in Whitespace
         IN  SubSeq(s, first, last)

\* s.split(sep, 1) for an s that contains sep: the parts around the FIRST sep.
SplitFirst(s, sep) ==
    LET i == Find(s, sep)
    IN  << SubSeq(s, 1, i - 1), SubSeq(s, i + Len(sep), Len(s)) >>

\* s.rsplit(sep, 1) for an s that contains sep: the parts around the LAST sep.
RSplitLast(s, sep) ==
    LET i == RFind(s, sep)
    IN  << SubSeq(s, 1, i - 1), SubSeq(s, i + Len(sep), Len(s)) >>

\* s.lower()
Lower(s) ==
    [i \in 1..Len(s) |->
        IF Ord(s[i]) \in 7..32 THEN CodePoints[Ord(s[i]) + 27] ELSE s[i]]

\* a < b in Python's string order
StrLess(a, b) ==
    \/ /\ Len(a) < Len(b)
       /\ SubSeq(b, 1, Len(a)) = a
    \/ \E i \in 1..Len(a) :
          /\ i <= Len(b)
          /\ SubSeq(a, 1, i - 1) = SubSeq(b, 1, i - 1)
          /\ Ord(a[i]) < Ord(b[i])

\* ------------------------------------------------ extract_meter_and_reading

Separator == <<" ", "-", " ">>

UnknownReading ==
    <<"U", "n", "k", "n", "o", "w", "n", " ", "R", "e", "a", "d", "i", "n", "g">>

UnknownUnit == <<"U", "n", "k", "n", "o", "w", "n", " ", "U", "n", "i", "t">>

\* "." of the pattern: any character but a line break (no re.DOTALL); here
\* for the characters a..b of s.
Dot(s, a, b) == \A x \in a..b : s[x] # "\n"

\* "\s*" of the pattern, for the characters a..b of s.
Spaces(s, a, b) == \A x \in a..b : s[x] \in Whitespace

\* The pattern ^(.*?)\s*\((.*?)\)$ matches s with group 1 = the first i
\* characters and the "(" at position j.  s is stripped, so "$" is the end.
MatchesAt(s, i, j) ==
    /\ i < j
    /\ j < Len(s)
    /\ s[j] = "("
    /\ s[Len(s)] = ")"
    /\ Spaces(s, i + 1, j - 1)
    /\ Dot(s, 1, i)
    /\ Dot(s, j + 1, Len(s) - 1)

\* re.match(pattern_with_parentheses, s): <<>> for None, else <<group 1,
\* group 2>>.  Group 1 is lazy: the shortest prefix the match succeeds with.
ReMatchParentheses(s) ==
    LET opens == {j \in 1..Len(s) : s[j] = "("}
        hits  == UNION { { <<i, j>> : i \in {k \in 0..(j - 1) :
                                                MatchesAt(s, k, j)} } :
                         j \in opens }
    IN  IF hits = {}
        THEN <<>>
        ELSE LET p == CHOOSE q \in hits : \A r \in hits : q[1] <= r[1]
             IN  << SubSeq(s, 1, p[1]), SubSeq(s, p[2] + 1, Len(s) - 1) >>

\* extract_meter_and_reading(column_name): <<meter_name, reading_type, unit>>
extract_meter_and_reading(name) ==
    IF ~Contains(name, Separator)
    THEN <<name, UnknownReading, UnknownUnit>>
    ELSE LET parts        == SplitFirst(name, Separator)
             meter_name   == Strip(parts[1])
             reading_part == Strip(parts[2])
             match        == ReMatchParentheses(reading_part)
         IN  IF match # <<>>
             THEN <<meter_name, Strip(match[1]), Strip(match[2])>>
             ELSE IF Contains(reading_part, <<"_">>)
                  THEN LET reading_parts == RSplitLast(reading_part, <<"_">>)
                       IN  <<meter_name, Strip(reading_parts[1]),
                             Strip(reading_parts[2])>>
                  ELSE <<meter_name, reading_part, UnknownUnit>>

\* ------------------------------------------------------- the uploaded file

\* Column names of the uploaded tables.
TimestampName == <<"T", "i", "m", "e", "s", "t", "a", "m", "p">>

UpperTimestampName == <<"T", "I", "M", "E", "S", "T", "A", "M", "P">>

MeterName == <<"M", "e", "t", "e", "r">>

ColRu == <<"A", " ", "-", " ", "R", " ", "(", "u", ")">>

ColRv == <<"A", " ", "-", " ", "R", "_", "v">>

ColMeter == <<"A", " ", "-", " ", "M", "e", "t", "e", "r">>

\* The two "Building B" columns of the in-app example (example_data).
ColEnergy ==
    <<"B", "u", "i", "l", "d", "i", "n", "g", " ", "B", " ", "-", " ",
      "M", "a", "i", "n", " ", "M", "e", "t", "e", "r", " ", "-", " ",
      "E", "n", "e", "r", "g", "y", " ", "R", "e", "a", "d", "i", "n", "g",
      " ", "(", "k", "W", "h", ")">>

ColPowerFactor ==
    <<"B", "u", "i", "l", "d", "i", "n", "g", " ", "B", " ", "-", " ",
      "M", "a", "i", "n", " ", "M", "e", "t", "e", "r", " ", "-", " ",
      "P", "o", "w", "e", "r", " ", "F", "a", "c", "t", "o", "r">>

DataHeaders == {ColRu, ColRv, ColMeter, ColEnergy, ColPowerFactor}

\* Line 135, for the column names of the uploads: what the parser returns
\* for each of them (it is a pure function; the run looks its results up
\* here).
ParsedColumns ==
    [name \in DataHeaders \cup {TimestampName, UpperTimestampName} |->
        extract_meter_and_reading(name)]

ParseColumn(name) ==
    IF name \in DOMAIN ParsedColumns
    THEN ParsedColumns[name]
    ELSE extract_meter_and_reading(name)

\* Timestamp-like columns come first: none, "Timestamp", one to be renamed,
\* or two of them (the second is then a data column).
TimestampPrefixes ==
    { <<>>, <<TimestampName>>, <<UpperTimestampName>>,
      <<TimestampName, UpperTimestampName>> }

\* The timestamp texts of a column, all in one format.
StrictTexts ==
    {"Thursday, March 27, 2025 15:45", "Thursday, March 27, 2025 16:00"}

IsoTexts == {"2025-03-27 15:45:00", "2025-03-27 16:00:00"}

OtherTexts == {"15h45", "16h00"}

TimestampFormats == {StrictTexts, IsoTexts, OtherTexts}

\* The reading in row r of column c (every cell holds a different reading).
Reading(r, c) == 10 * r + c

\* 'timestamp' in col.lower()
IsTimestampLike(col) ==
    Contains(Lower(col), <<"t", "i", "m", "e", "s", "t", "a", "m", "p">>)

\* [col for col in df.columns if 'timestamp' in col.lower()]
TimestampColumns(columns) == SelectSeq(columns, IsTimestampLike)

\* Position of a column name in a list of column names (0 when absent).
ColumnIndex(columns, name) ==
    IF \E i \in 1..Len(columns) : columns[i] = name
    THEN CHOOSE i \in 1..Len(columns) : columns[i] = name
    ELSE 0

\* Sequences of n different elements of S.
Arrangements(S, n) ==
    {f \in [1..n -> S] : \A i, j \in 1..n : i # j => f[i] # f[j]}

\* Number of data columns: all but the first timestamp-like one.
NumDataColumns(columns) ==
    Len(columns) - (IF TimestampColumns(columns) = <<>> THEN 0 ELSE 1)

ColumnLists ==
    { cl \in { p \o d : p \in TimestampPrefixes,
                        d \in UNION {Arrangements(DataHeaders, n) :
                                        n \in 0..MaxColumns} } :
        NumDataColumns(cl) <= MaxColumns }

\* Position of the first timestamp-like column (0 when there is none).
TimestampPosition(columns) ==
    IF TimestampColumns(columns) = <<>>
    THEN 0
    ELSE ColumnIndex(columns, TimestampColumns(columns)[1])

\* The timestamp cells of k rows: texts of one format, or missing.
TimestampCells(t, k) ==
    IF t = 0
    THEN {[r \in 1..k |-> NaT]}
    ELSE UNION {[1..k -> texts \cup {NaT}] : texts \in TimestampFormats}

\* The table with these columns and k rows, the timestamp column at position
\* t holding ts, and a reading in the cells of present.
MakeTable(columns, t, k, ts, present) ==
    [columns |-> columns,
     rows    |-> [r \in 1..k |->
                    [c \in 1..Len(columns) |->
                       IF c = t THEN ts[r]
                       ELSE IF c \in present[r] THEN Reading(r, c)
                       ELSE NaN]]]

\* Column lists, the position of their timestamp column, and row counts,
\* with at most MaxCells data cells.
Shapes ==
    UNION { { <<cl, TimestampPosition(cl), k>> :
                k \in {j \in 0..MaxRows : NumDataColumns(cl) * j <= MaxCells} } :
            cl \in ColumnLists }

EmptyTable == [columns |-> <<>>, rows |-> <<>>]

\* The uploads that yield no table: a file that is neither Excel nor CSV, one
\* the reader rejects, one in another encoding.
FailingFiles ==
    { [kind |-> k, table |-> EmptyTable] :
        k \in {"other_extension", "unreadable", "undecodable"} }

\* f is one of the uploaded files: a table, or a file that yields none.
IsUpload(f) ==
    \/ \E bad \in FailingFiles : f = bad
    \/ \E sh \in Shapes :
          \E ts \in TimestampCells(sh[2], sh[3]) :
             \E present \in [1..sh[3] -> SUBSET ((1..Len(sh[1])) \ {sh[2]})] :
                f = [kind  |-> "table",
                     table |-> MakeTable(sh[1], sh[2], sh[3], ts, present)]

\* ----------------------------------------------------------------- messages

NoTimestampColumnError ==
    "Error: No 'Timestamp' column found in the uploaded file."

MultipleTimestampWarning == "Multiple timestamp-like columns found."

RenamedWarning == "Renamed column to 'Timestamp'"

AutoDetectWarning ==
    "Timestamp format was auto-detected. Please verify the conversion."

TimestampError ==
    "Error converting timestamps. Ensure format is 'Day, Month DD, YYYY HH:MM'."

NoValidDataError == "No valid data found after processing all columns."

EmptyPivotError == "No valid data after pivoting. Check your input file."

ProcessingError == "Error during data processing"

EncodingError ==
    "Encoding error reading CSV file. Try changing the encoding in CSV Import Options."

ReadError == "Error reading file"

\* --------------------------------------------------------- reading the file

\* ReadFile with an except branch that records nothing.
ReadFileSwallowing ==
    /\ pc = "read"
    /\ IF uploaded_file.kind = "table"
       THEN /\ df' = Bind(uploaded_file.table)
            /\ pc' = "find_timestamp"
       ELSE /\ df' = df
            /\ pc' = "display"
    /\ UNCHANGED <<uploaded_file, errors, warnings, all_data, reading_types,
                   melted_df, unit_dict, column_info, shown, column_name,
                   parsed>>

\* Lines 51-88 and 188-191: read the upload into df.  A file that is neither
\* Excel nor CSV leaves df unbound, and line 83 raises NameError.
ReadFile ==
    /\ pc = "read"
    /\ IF uploaded_file.kind = "table"
       THEN /\ df' = Bind(uploaded_file.table)
            /\ errors' = errors
            /\ pc' = "find_timestamp"
       ELSE /\ df' = df
            /\ errors' = Append(errors,
                                IF uploaded_file.kind = "undecodable"
                                THEN EncodingError ELSE ReadError)
            /\ pc' = "display"
    /\ UNCHANGED <<uploaded_file, warnings, all_data, reading_types, melted_df,
                   unit_dict, column_info, shown, column_name, parsed>>

\* ------------------------------------------------------ the timestamp column

\* df.rename(columns={old: new})
RenameColumn(frame, old, new) ==
    [frame EXCEPT !.columns =
        [i \in 1..Len(frame.columns) |->
            IF frame.columns[i] = old THEN new ELSE frame.columns[i]]]

\* Lines 90-105: find the timestamp column and rename it to "Timestamp".
FindTimestamp ==
    /\ pc = "find_timestamp"
    /\ LET frame             == ValueOf(df)
           timestamp_columns == TimestampColumns(frame.columns)
       IN  IF timestamp_columns = <<>>
           THEN /\ errors' = Append(errors, NoTimestampColumnError)
                /\ UNCHANGED <<df, warnings>>
                /\ pc' = "display"
           ELSE LET timestamp_col == timestamp_columns[1]
                    w1 == IF Len(timestamp_columns) > 1
                          THEN Append(warnings, MultipleTimestampWarning)
                          ELSE warnings
                IN  /\ IF timestamp_col # TimestampName
                       THEN /\ df' = Bind(RenameColumn(frame, timestamp_col,
                                                       TimestampName))
                            /\ warnings' = Append(w1, RenamedWarning)
                       ELSE /\ df' = df
                            /\ warnings' = w1
                    /\ errors' = errors
                    /\ pc' = "convert_timestamp"
    /\ UNCHANGED <<uploaded_file, all_data, reading_types, melted_df,
                   unit_dict, column_info, shown, column_name, parsed>>

\* ------------------------------------------------- the timestamp conversion

\* pd.to_datetime(text, format="%A, %B %d, %Y %H:%M"), then
\* strftime("%d/%m/%Y %H:%M"); "ValueError" when the text is not in the format.
StrictConvert(text) ==
    CASE text = NaT -> NaT
      [] text = "Thursday, March 27, 2025 15:45" -> "27/03/2025 15:45"
      [] text = "Thursday, March 27, 2025 16:00" -> "27/03/2025 16:00"
      [] OTHER -> "ValueError"

\* pd.to_datetime(text), then strftime("%d/%m/%Y %H:%M").
PermissiveConvert(text) ==
    CASE text = NaT -> NaT
      [] text = "Thursday, March 27, 2025 15:45" -> "27/03/2025 15:45"
      [] text = "Thursday, March 27, 2025 16:00" -> "27/03/2025 16:00"
      [] text = "2025-03-27 15:45:00" -> "27/03/2025 15:45"
      [] text = "2025-03-27 16:00:00" -> "27/03/2025 16:00"
      [] OTHER -> "ValueError"

\* The values of a column, top to bottom.
ColumnValues(frame, name) ==
    LET c == ColumnIndex(frame.columns, name)
    IN  [r \in 1..Len(frame.rows) |-> frame.rows[r][c]]

\* df[name] = values
SetColumn(frame, name, values) ==
    LET c == ColumnIndex(frame.columns, name)
    IN  [frame EXCEPT !.rows =
            [r \in 1..Len(frame.rows) |->
                [frame.rows[r] EXCEPT ![c] = values[r]]]]

\* A conversion of a whole column raises when one value does.
Raises(values) == \E r \in 1..Len(values) : values[r] = "ValueError"

\* ConvertTimestamp with the warning appended before the permissive parse
\* is tried, so that it is recorded also when that parse fails.
ConvertTimestampWarningFirst ==
    /\ pc = "convert_timestamp"
    /\ LET frame      == ValueOf(df)
           texts      == ColumnValues(frame, TimestampName)
           strict     == [r \in 1..Len(texts) |-> StrictConvert(texts[r])]
           permissive == [r \in 1..Len(texts) |-> PermissiveConvert(texts[r])]
       IN  IF ~Raises(strict)
           THEN /\ df' = Bind(SetColumn(frame, TimestampName, strict))
                /\ UNCHANGED <<warnings, errors>>
           ELSE /\ warnings' = Append(warnings, AutoDetectWarning)
                /\ IF ~Raises(permissive)
                   THEN /\ df' = Bind(SetColumn(frame, TimestampName,
                                                permissive))
                        /\ errors' = errors
                   ELSE /\ df' = df
                        /\ errors' = Append(errors, TimestampError)
    /\ pc' = "process_columns"
    /\ UNCHANGED <<uploaded_file, all_data, reading_types, melted_df,
                   unit_dict, column_info, shown, column_name, parsed>>

\* Lines 107-117: strict parse, else auto-detect with a warning, else an error
\* (and df keeps the original texts).  The run goes on to the column loop in
\* every case.
ConvertTimestamp ==
    /\ pc = "convert_timestamp"
    /\ LET frame      == ValueOf(df)
           texts      == ColumnValues(frame, TimestampName)
           strict     == [r \in 1..Len(texts) |-> StrictConvert(texts[r])]
           permissive == [r \in 1..Len(texts) |-> PermissiveConvert(texts[r])]
       IN  IF ~Raises(strict)
           THEN /\ df' = Bind(SetColumn(frame, TimestampName, strict))
                /\ UNCHANGED <<warnings, errors>>
           ELSE IF ~Raises(permissive)
                THEN /\ df' = Bind(SetColumn(frame, TimestampName, permissive))
                     /\ warnings' = Append(warnings, AutoDetectWarning)
                     /\ errors' = errors
                ELSE /\ df' = df
                     /\ warnings' = warnings
                     /\ errors' = Append(errors, TimestampError)
    /\ pc' = "process_columns"
    /\ UNCHANGED <<uploaded_file, all_data, reading_types, melted_df,
                   unit_dict, column_info, shown, column_name, parsed>>

\* ------------------------------------------------------------ the column loop

\* [col for col in df.columns if col != "Timestamp"]
DataColumns(frame) ==
    SelectSeq(frame.columns, LAMBDA col : col # TimestampName)

\* Lines 135-146: the frame of one data column, one record per row whose
\* value is not missing.
Labelled(frame, column, triple) ==
    LET t == ColumnIndex(frame.columns, TimestampName)
        c == ColumnIndex(frame.columns, column)
    IN  [r \in 1..Len(frame.rows) |->
            [Timestamp   |-> frame.rows[r][t],
             Value       |-> frame.rows[r][c],
             Meter       |-> triple[1],
             ReadingType |-> triple[2],
             Unit        |-> triple[3]]]

TempFrame(frame, column) ==
    SelectSeq(Labelled(frame, column, ParseColumn(column)),
              LAMBDA rec : rec.Value # NaN)

\* CollectFrames without the "if not temp_df.empty" test.
CollectFramesKeepingEmpty(frame) ==
    LET data_columns == DataColumns(frame)
    IN  [i \in 1..Len(data_columns) |-> TempFrame(frame, data_columns[i])]

\* Lines 131-149: the frames of the data columns, in column order, without
\* the empty ones.
CollectFrames(frame) ==
    LET data_columns == DataColumns(frame)
        frames == [i \in 1..Len(data_columns) |->
                      TempFrame(frame, data_columns[i])]
    IN  SelectSeq(frames, LAMBDA f : f # <<>>)

\* Line 136: every data column's reading type, its values missing or not.
CollectReadingTypes(frame) ==
    LET data_columns == DataColumns(frame)
    IN  {ParseColumn(data_columns[i])[2] : i \in 1..Len(data_columns)}

\* Lines 120-151: the loop over the data columns.
ProcessColumns ==
    /\ pc = "process_columns"
    /\ all_data' = Bind(CollectFrames(ValueOf(df)))
    /\ reading_types' = Bind(CollectReadingTypes(ValueOf(df)))
    /\ pc' = "pivot"
    /\ UNCHANGED <<uploaded_file, df, errors, warnings, melted_df, unit_dict,
                   column_info, shown, column_name, parsed>>

\* ------------------------------------------------------------------ the pivot

\* pd.concat(frames, ignore_index=True)
RECURSIVE Concat(_)
Concat(frames) ==
    IF frames = <<>> THEN <<>> ELSE Head(frames) \o Concat(Tail(frames))

\* The strings of S in ascending order.
RECURSIVE SortStrings(_)
SortStrings(S) ==
    IF S = {}
    THEN <<>>
    ELSE LET least == CHOOSE a \in S : \A b \in S \ {a} : StrLess(a, b)
         IN  <<least>> \o SortStrings(S \ {least})

\* FirstValue with aggfunc='last'.
LastValue(records, timestamp, meter, reading_type) ==
    LET hits == {i \in 1..Len(records) :
                    /\ records[i].Timestamp = timestamp
                    /\ records[i].Meter = meter
                    /\ records[i].ReadingType = reading_type}
    IN  IF hits = {}
        THEN NaN
        ELSE records[CHOOSE i \in hits : \A j \in hits : j <= i].Value

\* aggfunc='first': the value of the first record of the group, in the order
\* of combined_df; missing when the group has no record.
FirstValue(records, timestamp, meter, reading_type) ==
    LET hits == {i \in 1..Len(records) :
                    /\ records[i].Timestamp = timestamp
                    /\ records[i].Meter = meter
                    /\ records[i].ReadingType = reading_type}
    IN  IF hits = {}
        THEN NaN
        ELSE records[CHOOSE i \in hits : \A j \in hits : i <= j].Value

\* Grouped with groupby(dropna=False).
GroupedKeepingMissing(combined_df) == combined_df

\* The records pivot_table groups: groupby drops the missing keys.
Grouped(combined_df) ==
    SelectSeq(combined_df, LAMBDA rec : rec.Timestamp # NaT)

\* The reading types that become columns of the pivot.
PivotReadingTypes(combined_df) ==
    {Grouped(combined_df)[i].ReadingType : i \in 1..Len(Grouped(combined_df))}

\* Lines 160-168: pivot_table(index=['Timestamp', 'Meter'],
\* columns='ReadingType', values='Value', aggfunc='first').reset_index():
\* one row per (Timestamp, Meter) group, one column per reading type, sorted.
PivotTable(combined_df) ==
    LET records == Grouped(combined_df)
        keys    == {<<records[i].Timestamp, records[i].Meter>> :
                       i \in 1..Len(records)}
        types   == PivotReadingTypes(combined_df)
    IN  [columns |-> <<TimestampName, MeterName>> \o SortStrings(types),
         rows    |-> {[Timestamp |-> k[1],
                       Meter     |-> k[2],
                       readings  |-> [rt \in types |->
                                        FirstValue(records, k[1], k[2], rt)]] :
                         k \in keys}]

\* reset_index() cannot insert Timestamp or Meter when a reading type has
\* that name: ValueError.
ResetIndexRaises(combined_df) ==
    \/ TimestampName \in PivotReadingTypes(combined_df)
    \/ MeterName \in PivotReadingTypes(combined_df)

\* Line 171: combined_df[['ReadingType', 'Unit']].drop_duplicates(): the
\* distinct pairs, each at its first occurrence.
UnitInfo(combined_df) ==
    LET pairs == [i \in 1..Len(combined_df) |->
                     <<combined_df[i].ReadingType, combined_df[i].Unit>>]
        firsts == {i \in 1..Len(pairs) :
                      \A j \in 1..(i - 1) : pairs[j] # pairs[i]}
    IN  [pairs |-> pairs, keep |-> firsts]

\* UnitDict that keeps the first pair of a key (setdefault).
UnitDictKeepingFirst(combined_df) ==
    LET info == UnitInfo(combined_df)
        keys == {info.pairs[i][1] : i \in info.keep}
    IN  [rt \in keys |->
            LET rows == {i \in info.keep : info.pairs[i][1] = rt}
            IN  info.pairs[CHOOSE i \in rows : \A j \in rows : i <= j][2]]

\* Line 172: dict(zip(unit_info['ReadingType'], unit_info['Unit'])): a later
\* pair with the same key replaces the earlier one.
UnitDict(combined_df) ==
    LET info == UnitInfo(combined_df)
        keys == {info.pairs[i][1] : i \in info.keep}
    IN  [rt \in keys |->
            LET rows == {i \in info.keep : info.pairs[i][1] = rt}
            IN  info.pairs[CHOOSE i \in rows : \A j \in rows : j <= i][2]]

\* Lines 175-176: dropna(subset=reading_columns, how='all').
DropAllMissing(table) ==
    [table EXCEPT !.rows =
        {row \in table.rows :
            \E rt \in DOMAIN row.readings : row.readings[rt] # NaN}]

\* Lines 153-186: pivot the collected frames, or record why there is no
\* table.
Pivot ==
    /\ pc = "pivot"
    /\ IF ValueOf(all_data) = <<>>
       THEN /\ errors' = Append(errors, NoValidDataError)
            /\ UNCHANGED <<melted_df, unit_dict>>
       ELSE LET combined_df == Concat(ValueOf(all_data))
            IN  IF ResetIndexRaises(combined_df)
                THEN /\ errors' = Append(errors, ProcessingError)
                     /\ UNCHANGED <<melted_df, unit_dict>>
                ELSE LET table == DropAllMissing(PivotTable(combined_df))
                     IN  /\ melted_df' = Bind(table)
                         /\ unit_dict' = Bind(UnitDict(combined_df))
                         /\ errors' = IF table.rows = {}
                                      THEN Append(errors, EmptyPivotError)
                                      ELSE errors
    /\ pc' = "display"
    /\ UNCHANGED <<uploaded_file, df, warnings, all_data, reading_types,
                   column_info, shown, column_name, parsed>>

\* ---------------------------------------------------------------- the result

NothingShown ==
    [warnings |-> FALSE, errors |-> FALSE, preview |-> FALSE,
     downloads |-> FALSE]

\* Lines 193-236: the warnings, then the errors or the converted table.  The
\* success branch reads melted_df, unit_dict and reading_types: an unbound
\* one raises NameError and the script stops.
Display ==
    /\ pc = "display"
    /\ IF errors # <<>>
       THEN /\ shown' = [shown EXCEPT !.warnings = (warnings # <<>>),
                                      !.errors = TRUE]
            /\ pc' = "done"
       ELSE IF IsBound(melted_df) /\ IsBound(unit_dict) /\ IsBound(reading_types)
            THEN /\ shown' = [shown EXCEPT !.warnings = (warnings # <<>>),
                                           !.preview = TRUE]
                 /\ pc' = "downloads"
            ELSE /\ shown' = [shown EXCEPT !.warnings = (warnings # <<>>)]
                 /\ pc' = "crashed"
    /\ UNCHANGED <<uploaded_file, df, errors, warnings, all_data,
                   reading_types, melted_df, unit_dict, column_info,
                   column_name, parsed>>

\* ------------------------------------------------------------- the downloads

TimestampDescription ==
    <<"T", "i", "m", "e", "s", "t", "a", "m", "p", " ", "o", "f", " ",
      "t", "h", "e", " ", "r", "e", "a", "d", "i", "n", "g">>

MeterDescription ==
    <<"N", "a", "m", "e", " ", "o", "f", " ", "t", "h", "e", " ",
      "m", "e", "t", "e", "r", "/", "d", "e", "v", "i", "c", "e">>

\* unit_dict.get(rt, "Unknown unit")
UnitOrUnknown(units, rt) ==
    IF rt \in DOMAIN units
    THEN units[rt]
    ELSE <<"U", "n", "k", "n", "o", "w", "n", " ", "u", "n", "i", "t">>

\* f'{rt} reading ({unit_dict.get(rt, "Unknown unit")})'
ReadingDescription(units, rt) ==
    rt \o <<" ", "r", "e", "a", "d", "i", "n", "g", " ", "(">>
       \o UnitOrUnknown(units, rt) \o <<")">>

\* The orders in which a Python set can hand out its elements.
IterationOrders(S) == Arrangements(S, Cardinality(S))

\* Lines 256-260: the Description column, the reading types in the set's
\* iteration order.
Descriptions(units, order) ==
    <<TimestampDescription, MeterDescription>>
        \o [i \in 1..Len(order) |-> ReadingDescription(units, order[i])]

\* Lines 254-261: pd.DataFrame of two columns: ValueError unless they have
\* the same length.
ColumnInfo(table, units, order) ==
    IF Len(Descriptions(units, order)) # Len(table.columns)
    THEN Unbound
    ELSE Bind([i \in 1..Len(table.columns) |->
                 [name        |-> table.columns[i],
                  description |-> Descriptions(units, order)[i]]])

\* Lines 238-289: build the workbook and offer the downloads; an exception
\* while building it shows an error message instead of the downloads.
Downloads ==
    /\ pc = "downloads"
    /\ \E order \in IterationOrders(ValueOf(reading_types)) :
          /\ column_info' = ColumnInfo(ValueOf(melted_df), ValueOf(unit_dict),
                                       order)
          /\ shown' = [shown EXCEPT !.downloads = IsBound(column_info')]
    /\ pc' = "done"
    /\ UNCHANGED <<uploaded_file, df, errors, warnings, all_data,
                   reading_types, melted_df, unit_dict, column_name, parsed>>

\* ------------------------------------------------------------ the upload run

NoFile == [kind |-> "none", table |-> EmptyTable]

Init ==
    /\ pc = "read"
    /\ IsUpload(uploaded_file)
    /\ df = Unbound
    /\ errors = <<>>
    /\ warnings = <<>>
    /\ all_data = Unbound
    /\ reading_types = Unbound
    /\ melted_df = Unbound
    /\ unit_dict = Unbound
    /\ column_info = Unbound
    /\ shown = NothingShown
    /\ column_name = <<>>
    /\ parsed = Unbound

Next ==
    \/ ReadFile
    \/ FindTimestamp
    \/ ConvertTimestamp
    \/ ProcessColumns
    \/ Pivot
    \/ Display
    \/ Downloads

Spec == Init /\ [][Next]_vars

\* ------------------------------------------------------------- the parser run

ParserAlphabet == {"a", " ", "-", "(", ")", "_", "\n"}

\* The strings of at most n characters.
Strings(n) == UNION {[1..k -> ParserAlphabet] : k \in 0..n}

\* A header with a line break inside the reading type, as spreadsheet
\* exports with wrapped header cells have them.
WrappedHeader ==
    <<"M", " ", "-", " ", "E", "n", "e", "r", "g", "y", "\n",
      "R", "e", "a", "d", "i", "n", "g", " ", "(", "k", "W", "h", ")">>

\* The headers handed to the parser: short free-form ones, a short meter
\* followed by the separator and a free-form remainder, and the named ones.
ParserHeaders ==
    Strings(MaxHeaderLen)
    \cup { m \o Separator \o r :
             m \in {<<>>, <<"a">>, <<"a", " ">>},
             r \in Strings(MaxRemainderLen) }
    \cup DataHeaders
    \cup {WrappedHeader}

InitParser ==
    /\ pc = "parse"
    /\ column_name \in ParserHeaders
    /\ parsed = Unbound
    /\ uploaded_file = NoFile
    /\ df = Unbound
    /\ errors = <<>>
    /\ warnings = <<>>
    /\ all_data = Unbound
    /\ reading_types = Unbound
    /\ melted_df = Unbound
    /\ unit_dict = Unbound
    /\ column_info = Unbound
    /\ shown = NothingShown

\* Line 135: one call of extract_meter_and_reading.
ParseHeader ==
    /\ pc = "parse"
    /\ parsed' = Bind(extract_meter_and_reading(column_name))
    /\ pc' = "parsed"
    /\ UNCHANGED <<uploaded_file, df, errors, warnings, all_data,
                   reading_types, melted_df, unit_dict, column_info, shown,
                   column_name>>

NextParser == ParseHeader

SpecParser == InitParser /\ [][NextParser]_vars

\* ------------------------------------------------- what the claims speak of

\* The run presents its converted table.
Succeeded == pc \in {"downloads", "done"} /\ errors = <<>>

\* The elements of a list.
Range(list) == {list[i] : i \in 1..Len(list)}

\* The positions <<column, row>> of the readings of a frame whose timestamp
\* column is named Timestamp, data columns only.
ReadingCells(frame) ==
    {p \in (1..Len(frame.columns)) \X (1..Len(frame.rows)) :
        /\ frame.columns[p[1]] # TimestampName
        /\ frame.rows[p[2]][p[1]] # NaN}

\* The timestamp of a row of such a frame.
TimestampOf(frame, r) ==
    frame.rows[r][ColumnIndex(frame.columns, TimestampName)]

\* What the parser makes of each column name of a frame.
Triples(frame) ==
    [c \in 1..Len(frame.columns) |-> ParseColumn(frame.columns[c])]

\* The readings of a frame, each with its position <<column, row>> and its
\* (timestamp, meter, reading type) key.
KeyedCellsOf(frame, triples) ==
    {[at  |-> p,
      key |-> <<TimestampOf(frame, p[2]), triples[p[1]][1], triples[p[1]][2]>>] :
        p \in ReadingCells(frame)}

KeyedCells(frame) == KeyedCellsOf(frame, Triples(frame))

\* The readings of a frame that belong to (timestamp, meter, reading type).
CellsOfKey(frame, timestamp, meter, reading_type) ==
    {kc.at : kc \in {x \in KeyedCells(frame) :
                        x.key = <<timestamp, meter, reading_type>>}}

\* The (timestamp, meter, reading type) keys a frame holds a reading for.
KeysOf(frame) == {kc.key : kc \in KeyedCells(frame)}

\* The reading met first when the frame is walked column by column, each
\* column top to bottom; missing when the key has no reading.
TraversalFirst(frame, timestamp, meter, reading_type) ==
    LET cells == CellsOfKey(frame, timestamp, meter, reading_type)
    IN  IF cells = {}
        THEN NaN
        ELSE LET first == CHOOSE p \in cells : \A q \in cells :
                             \/ p[1] < q[1]
                             \/ (p[1] = q[1] /\ p[2] <= q[2])
             IN  frame.rows[first[2]][first[1]]

\* The rows of the output table for a (timestamp, meter) pair.
RowsOf(table, timestamp, meter) ==
    {row \in table.rows : row.Timestamp = timestamp /\ row.Meter = meter}

\* The reading-type columns of the output table.
ReadingColumns(table) ==
    {table.columns[i] : i \in 3..Len(table.columns)}

\* ---------------------------------------------------------------------- C1

\* The five steps of the parser's contract, read off the header directly:
\* the parenthesised unit runs from the first "(" to the closing ")" that
\* ends the remainder.
ContractParse(header) ==
    IF ~Contains(header, Separator)
    THEN <<header, UnknownReading, UnknownUnit>>
    ELSE LET cut       == Find(header, Separator)
             meter     == Strip(SubSeq(header, 1, cut - 1))
             remainder == Strip(SubSeq(header, cut + 3, Len(header)))
             n         == Len(remainder)
             open      == Find(remainder, <<"(">>)
             under     == RFind(remainder, <<"_">>)
         IN  IF n > 0 /\ remainder[n] = ")" /\ open # 0
             THEN <<meter, Strip(SubSeq(remainder, 1, open - 1)),
                    Strip(SubSeq(remainder, open + 1, n - 1))>>
             ELSE IF under # 0
                  THEN <<meter, Strip(SubSeq(remainder, 1, under - 1)),
                         Strip(SubSeq(remainder, under + 1, n))>>
                  ELSE <<meter, remainder, UnknownUnit>>

\* C1: for every column header, extract_meter_and_reading returns what the
\* five-step contract says (no separator: the header with the two "Unknown"
\* sentinels; else the meter before the FIRST " - ", and from the remainder
\* the parenthesised unit if it ends with one, else the split at the LAST
\* underscore, else "Unknown Unit").
C1_ParserFollowsContract ==
    pc = "parsed" => ValueOf(parsed) = ContractParse(column_name)

\* C1, for the headers whose remainder has no line break: there the parser
\* and the contract agree.
C1_AgreeWithoutLineBreak ==
    (pc = "parsed" /\ Dot(column_name, 1, Len(column_name)))
        => ValueOf(parsed) = ContractParse(column_name)

\* ---------------------------------------------------------------------- C2

BuildingBMainMeter ==
    <<"B", "u", "i", "l", "d", "i", "n", "g", " ", "B", " ", "-", " ",
      "M", "a", "i", "n", " ", "M", "e", "t", "e", "r">>

EnergyReading ==
    <<"E", "n", "e", "r", "g", "y", " ", "R", "e", "a", "d", "i", "n", "g">>

PowerFactor == <<"P", "o", "w", "e", "r", " ", "F", "a", "c", "t", "o", "r">>

\* The rows of the input that hold a timestamp and a reading in both
\* "Building B - Main Meter" columns.
ExampleRows(frame) ==
    {r \in 1..Len(frame.rows) :
        /\ TimestampOf(frame, r) # NaT
        /\ \E c \in 1..Len(frame.columns) :
              frame.columns[c] = ColEnergy /\ <<c, r>> \in ReadingCells(frame)
        /\ \E c \in 1..Len(frame.columns) :
              frame.columns[c] = ColPowerFactor
                  /\ <<c, r>> \in ReadingCells(frame)}

\* C2: the readings of "Building B - Main Meter - Energy Reading (kWh)" and
\* "Building B - Main Meter - Power Factor" at one timestamp come out in one
\* row with Meter = "Building B - Main Meter", under the reading types
\* "Energy Reading" and "Power Factor".
C2_ExampleMeterRow ==
    Succeeded =>
        \A r \in ExampleRows(ValueOf(df)) :
            \E row \in ValueOf(melted_df).rows :
                /\ row.Timestamp = TimestampOf(ValueOf(df), r)
                /\ row.Meter = BuildingBMainMeter
                /\ {EnergyReading, PowerFactor} \subseteq DOMAIN row.readings
                /\ row.readings[EnergyReading] # NaN
                /\ row.readings[PowerFactor] # NaN

\* ---------------------------------------------------------------------- C3

\* C3: every cell of the output table holds the reading met first for its
\* (timestamp, meter, reading type) when the input is walked column by
\* column and each column top to bottom; every key with a reading under a
\* timestamp has its cell; and a table with rows comes with no error or
\* warning but those of the timestamp step.
C3_FirstValueWins ==
    IsBound(melted_df) =>
        /\ \A row \in ValueOf(melted_df).rows :
              \A rt \in DOMAIN row.readings :
                 row.readings[rt] =
                    TraversalFirst(ValueOf(df), row.Timestamp, row.Meter, rt)
        /\ \A key \in KeysOf(ValueOf(df)) :
              key[1] # NaT =>
                 \E row \in RowsOf(ValueOf(melted_df), key[1], key[2]) :
                    /\ key[3] \in DOMAIN row.readings
                    /\ row.readings[key[3]] # NaN
        /\ ValueOf(melted_df).rows # {} =>
              /\ Range(errors) \subseteq {TimestampError}
              /\ Range(warnings) \subseteq
                    {MultipleTimestampWarning, RenamedWarning,
                     AutoDetectWarning}

\* A successful run whose input holds two readings for one key, the one in
\* the earlier column standing in the later row.
C3_Witness ==
    /\ Succeeded
    /\ \E key \in KeysOf(ValueOf(df)) :
          \E p, q \in CellsOfKey(ValueOf(df), key[1], key[2], key[3]) :
             p[1] < q[1] /\ p[2] > q[2]

\* ---------------------------------------------------------------------- C4

\* The (timestamp, meter) pairs of the input: every row's timestamp with
\* every data column's meter.
InputPairs(frame) ==
    {<<TimestampOf(frame, r), ParseColumn(frame.columns[c])[1]>> :
        r \in 1..Len(frame.rows),
        c \in {i \in 1..Len(frame.columns) :
                  frame.columns[i] # TimestampName}}

\* The pairs with a timestamp and at least one reading.
ObservedPairs(frame) ==
    {<<key[1], key[2]>> : key \in {k \in KeysOf(frame) : k[1] # NaT}}

\* A pair's row holds a missing value wherever the pair has no reading.
MissingWhereUnobserved(frame, table, pair) ==
    \A row \in RowsOf(table, pair[1], pair[2]) :
        /\ DOMAIN row.readings = ReadingColumns(table)
        /\ \A rt \in ReadingColumns(table) :
              CellsOfKey(frame, pair[1], pair[2], rt) = {}
                  => row.readings[rt] = NaN

\* C4 as claimed: a successful conversion has exactly one row for every
\* (timestamp, meter) pair of the input.
C4_OneRowPerInputPair ==
    Succeeded =>
        \A pair \in InputPairs(ValueOf(df)) :
            /\ Cardinality(RowsOf(ValueOf(melted_df), pair[1], pair[2])) = 1
            /\ MissingWhereUnobserved(ValueOf(df), ValueOf(melted_df), pair)

\* C4 as amended: a successful conversion has exactly one row for every pair
\* that has a timestamp and at least one reading, with a missing value under
\* every reading type the pair has no reading for, and no other row.
C4_OneRowPerObservedPair ==
    Succeeded =>
        /\ \A pair \in ObservedPairs(ValueOf(df)) :
              /\ Cardinality(RowsOf(ValueOf(melted_df), pair[1], pair[2])) = 1
              /\ MissingWhereUnobserved(ValueOf(df), ValueOf(melted_df), pair)
        /\ \A row \in ValueOf(melted_df).rows :
              <<row.Timestamp, row.Meter>> \in ObservedPairs(ValueOf(df))

\* A successful run with a row that holds a missing value, from an input
\* with a pair that has no reading at all.
C4_Witness ==
    /\ Succeeded
    /\ InputPairs(ValueOf(df)) \ ObservedPairs(ValueOf(df)) # {}
    /\ \E row \in ValueOf(melted_df).rows :
          \E rt \in DOMAIN row.readings : row.readings[rt] = NaN

\* ---------------------------------------------------------------------- C5

\* The data columns of a reading type that hold at least one reading.
ContributingColumns(frame, reading_type) ==
    {c \in 1..Len(frame.columns) :
        /\ frame.columns[c] # TimestampName
        /\ ParseColumn(frame.columns[c])[2] = reading_type
        /\ \E r \in 1..Len(frame.rows) : frame.rows[r][c] # NaN}

\* The reading types with such a column.
ContributingTypes(frame) ==
    {ParseColumn(frame.columns[c])[2] :
        c \in {p[1] : p \in ReadingCells(frame)}}

\* The unit of the earliest contributing column of a reading type.
UnitOfEarliest(frame, reading_type) ==
    LET cols == ContributingColumns(frame, reading_type)
    IN  ParseColumn(frame.columns[CHOOSE c \in cols :
                                     \A d \in cols : c <= d])[3]

\* The unit that shows up last: among the contributing columns that bring a
\* unit no earlier contributing column of the reading type has, the unit of
\* the latest.
UnitIntroducedLast(frame, reading_type) ==
    LET cols == ContributingColumns(frame, reading_type)
        news == {c \in cols :
                    \A d \in cols :
                       d < c => ParseColumn(frame.columns[d])[3]
                                   # ParseColumn(frame.columns[c])[3]}
    IN  ParseColumn(frame.columns[CHOOSE c \in news :
                                     \A d \in news : d <= c])[3]

C6_OutputIffNoErrors ==
    pc = "done" =>
        /\ (shown.preview /\ shown.downloads) <=> (errors = <<>>)
        /\ errors # <<>> => (shown.errors /\ ~shown.preview /\ ~shown.downloads)

\* ---------------------------------------------------------------------- C7

\* How often x occurs in a list.
Count(list, x) == Cardinality({i \in 1..Len(list) : list[i] = x})

\* The timestamp step of the run is over: the table has its Timestamp column
\* and the run is past the conversion.
TimestampsDone ==
    /\ IsBound(df)
    /\ ColumnIndex(ValueOf(df).columns, TimestampName) # 0
    /\ pc \in {"process_columns", "pivot", "display", "downloads", "done"}

\* The timestamp texts as uploaded (the column keeps its place when it is
\* renamed).
UploadedTexts ==
    ColumnValues([uploaded_file.table EXCEPT !.columns = ValueOf(df).columns],
                 TimestampName)

\* Every uploaded text is in the strict format (or missing).
StrictParses ==
    \A r \in 1..Len(UploadedTexts) :
        UploadedTexts[r] \in StrictTexts \cup {NaT}

\* Every uploaded text is one the permissive parse reads (or missing).
PermissiveParses ==
    \A r \in 1..Len(UploadedTexts) :
        UploadedTexts[r] \in StrictTexts \cup IsoTexts \cup {NaT}

\* C7: strict parse succeeds: no auto-detect warning, no timestamp error;
\* only the permissive parse succeeds: one auto-detect warning, no timestamp
\* error; both fail: the timestamp error is recorded without an auto-detect
\* warning, the timestamps stay as uploaded, and the run ends with its errors
\* and without a converted table.
C7_TimestampOutcome ==
    TimestampsDone =>
        /\ StrictParses =>
              /\ Count(warnings, AutoDetectWarning) = 0
              /\ Count(errors, TimestampError) = 0
        /\ (~StrictParses /\ PermissiveParses) =>
              /\ Count(warnings, AutoDetectWarning) = 1
              /\ Count(errors, TimestampError) = 0
        /\ (~StrictParses /\ ~PermissiveParses) =>
              /\ Count(errors, TimestampError) = 1
              /\ Count(warnings, AutoDetectWarning) = 0
              /\ ColumnValues(ValueOf(df), TimestampName) = UploadedTexts
              /\ pc # "downloads"
              /\ ~shown.preview
              /\ ~shown.downloads
              /\ pc = "done" => shown.errors

\* A run whose timestamps parse neither way ends; the pivot had built a
\* table with rows, and it is not presented.
C7_Witness ==
    /\ TimestampsDone
    /\ ~StrictParses
    /\ ~PermissiveParses
    /\ pc = "done"
    /\ IsBound(melted_df)
    /\ ValueOf(melted_df).rows # {}

\* ---------------------------------------------------------------------- C8

\* C8: "No valid data found after processing all columns." is recorded
\* exactly when the column loop ran and no data column holds a reading (no
\* data column at all included); a column without readings beside one with
\* readings does not record it.
C8_NoValidDataExactly ==
    pc \in {"display", "downloads", "done"} =>
        ( NoValidDataError \in Range(errors)
            <=> (IsBound(all_data) /\ ReadingCells(ValueOf(df)) = {}) )

\* The error is recorded for a table with rows and data columns, none of
\* which holds a reading.
C8_Witness ==
    /\ pc = "done"
    /\ NoValidDataError \in Range(errors)
    /\ Len(ValueOf(df).rows) > 0
    /\ Len(DataColumns(ValueOf(df))) > 1

\* ---------------------------------------------------------------------- C9

\* C9: on a successful run Column_Info has one row per column of the output
\* table, and the row of a reading-type column describes that reading type
\* with its unit.
C9_ColumnInfoDescribesColumns ==
    (pc = "done" /\ errors = <<>>) =>
        /\ IsBound(column_info)
        /\ Len(ValueOf(column_info)) = Len(ValueOf(melted_df).columns)
        /\ \A i \in 1..Len(ValueOf(column_info)) :
              /\ ValueOf(column_info)[i].name = ValueOf(melted_df).columns[i]
              /\ i >= 3 =>
                    ValueOf(column_info)[i].description =
                       ReadingDescription(ValueOf(unit_dict),
                                          ValueOf(melted_df).columns[i])

\* --------------------------------------------------------------------- C10

\* C10: whenever the result is displayed with an empty errors list,
\* melted_df, unit_dict and reading_types are bound and melted_df has rows;
\* the success branch never meets an unbound name.
C10_SuccessBranchIsBound ==
    /\ pc # "crashed"
    /\ (pc = "display" /\ errors = <<>>) =>
          /\ IsBound(melted_df)
          /\ IsBound(unit_dict)
          /\ IsBound(reading_types)
          /\ ValueOf(melted_df).rows # {}

\* The result is about to be displayed with warnings and no error.
C10_Witness ==
    /\ pc = "display"
    /\ errors = <<>>
    /\ warnings # <<>>

====
